---- MODULE Spec2Model ----
(***************************************************************************)
(* A model of the gist command line client: gist/client.py (main, the      *)
(* subcommand handlers) and gist/gist.py (GistAPI, authenticate, pushd).   *)
(*                                                                         *)
(* One behaviour is one invocation of main: the configuration is loaded,   *)
(* the editor and the token are resolved, the arguments are parsed and one *)
(* handler runs.  The remote server, the file system, the editor and git   *)
(* are the environment: what they answer is chosen with \E in the action   *)
(* that asks them.                                                         *)
(*                                                                         *)
(* A behaviour of SpecValue is one call of get_value_from_command or of    *)
(* get_personal_access_token on a configuration of its own.                *)
(***************************************************************************)
EXTENDS Integers, Sequences, FiniteSets, TLC

\* ------------------------------------------------------------------ bounds
\* the most elements a page of the list endpoint carries
MaxElems == 2
\* the most requests one invocation may send (caps the pagination loop)
MaxRequests == 3

\* the most code points of a gist file's text
MaxTextLen == 2
\* the most ids one delete command is given
MaxIds == 2
\* the most characters of an option value handed to get_value_from_command
MaxValueLen == 3

\* ------------------------------------------------------------- basic values
\* Python's None, where a string is expected
NoneV == "None"

\* the URL every request is built with
BaseUrl == [path |-> <<"gists">>, page |-> 0]

\* the headers authenticate.__init__ and GistAPI.list give every request
StdHeaders ==
  [ AcceptEncoding |-> "identity, deflate, compress, gzip",
    UserAgent      |-> "python-requests/1.2.0",
    Accept         |-> "application/vnd.github.v3.base64" ]

\* ---------------------------------------------------------------- JSON
\* A decoded JSON value is a record tagged with its Python type; a body that
\* json() cannot decode (empty, malformed) is JInvalid.
JInvalid == [t |-> "invalid"]
JNum == [t |-> "num"]
JArr(elems) == [t |-> "list", elems |-> elems]
JObj(d) == [t |-> "dict", d |-> d]

\* the three keys GistAPI.list reads from each element
ListKeys == {"id", "public", "description"}

\* the elements a page may carry: two complete records, a record lacking
\* each one of the keys, and an element that is no object
ElemSet ==
  { JObj([id |-> 1, public |-> TRUE, description |-> "test-desc-U+212C"]),
    JObj([id |-> 2, public |-> FALSE, description |-> NoneV]),
    JObj([public |-> TRUE, description |-> "no-id"]),
    JObj([id |-> 3, description |-> "no-public"]),
    JObj([id |-> 4, public |-> TRUE]),
    JNum }

SeqsUpTo(S, n) == UNION { [1..k -> S] : k \in 0..n }

\* the bodies the list endpoint may answer with
ListBodies ==
  { JInvalid, JObj([message |-> "Bad credentials"]) }
    \cup { JArr(s) : s \in SeqsUpTo(ElemSet, MaxElems) }

\* the link headers the list endpoint may answer with: none, one with a
\* "next" entry (to the following page, or back to the first), one without
NoLink == <<>>
LinkSet ==
  { NoLink,
    << [url |-> [path |-> <<"gists">>, page |-> 2], rel |-> "next"],
       [url |-> [path |-> <<"gists">>, page |-> 9], rel |-> "last"] >>,
    << [url |-> BaseUrl, rel |-> "next"] >>,
    << [url |-> BaseUrl, rel |-> "first"],
       [url |-> [path |-> <<"gists">>, page |-> 1], rel |-> "prev"] >> }

\* an HTTP response: status, decoded body, link header (NoLink: no header)
Response(status, body, link) == [status |-> status, body |-> body, link |-> link]
\* what a request that met a transport failure (an exception inside
\* session.send) is answered with: nothing
NoResponse == Response(0, JInvalid, NoLink)

Is2xx(status) == status >= 200 /\ status < 300

\* before GistAPI.archive ran there is no archive file
NoTarball == [exists |-> FALSE, members |-> <<>>]

\* a request that carries no body
NoData == [empty |-> TRUE]

\* requests.Request(method, url, headers=..., params=...)
Request(method, url, params) ==
  [method |-> method, url |-> url, headers |-> StdHeaders, params |-> params,
   data |-> NoData]

\* the value of `request` before GistAPI.list built one
NoRequest == [method |-> NoneV]

\* ------------------------------------------------------- text and base64
\* A text is a sequence of Unicode code points, a byte string a sequence of
\* numbers below 256, an ASCII string (a base64 text) a sequence of character
\* codes.
CodePoints == {65, 233, 8492}
Texts == SeqsUpTo(CodePoints, MaxTextLen)

RECURSIVE Flatten(_)
Flatten(ss) == IF ss = <<>> THEN <<>> ELSE Head(ss) \o Flatten(Tail(ss))

\* str.encode('utf-8') of one code point
Utf8OfCodePoint(c) ==
  IF c < 128 THEN << c >>
  ELSE IF c < 2048 THEN << 192 + (c \div 64), 128 + (c % 64) >>
  ELSE IF c < 65536
  THEN << 224 + (c \div 4096), 128 + ((c \div 64) % 64), 128 + (c % 64) >>
  ELSE << 240 + (c \div 262144), 128 + ((c \div 4096) % 64),
          128 + ((c \div 64) % 64), 128 + (c % 64) >>

Utf8Encode(t) == Flatten([i \in 1..Len(t) |-> Utf8OfCodePoint(t[i])])

IsCont(bs, i) == i <= Len(bs) /\ bs[i] >= 128 /\ bs[i] < 192

\* bytes.decode('utf-8'), strict: [ok, text]; ok is FALSE where Python raises
\* UnicodeDecodeError (stray or missing continuation bytes, overlong forms,
\* surrogates, code points past U+10FFFF)
RECURSIVE Utf8DecodeFrom(_, _, _)
Utf8DecodeFrom(bs, i, acc) ==
  IF i > Len(bs) THEN [ok |-> TRUE, text |-> acc]
  ELSE LET b == bs[i]
           bad == [ok |-> FALSE, text |-> <<>>]
       IN IF b < 128 THEN Utf8DecodeFrom(bs, i + 1, Append(acc, b))
          ELSE IF b >= 194 /\ b < 224
          THEN IF IsCont(bs, i + 1)
               THEN Utf8DecodeFrom(bs, i + 2,
                      Append(acc, (b - 192) * 64 + (bs[i + 1] - 128)))
               ELSE bad
          ELSE IF b >= 224 /\ b < 240
          THEN IF IsCont(bs, i + 1) /\ IsCont(bs, i + 2)
               THEN LET c == (b - 224) * 4096 + (bs[i + 1] - 128) * 64
                               + (bs[i + 2] - 128)
                    IN IF c < 2048 \/ (c >= 55296 /\ c < 57344) THEN bad
                       ELSE Utf8DecodeFrom(bs, i + 3, Append(acc, c))
               ELSE bad
          ELSE IF b >= 240 /\ b < 245
          THEN IF IsCont(bs, i + 1) /\ IsCont(bs, i + 2) /\ IsCont(bs, i + 3)
               THEN LET c == (b - 240) * 262144 + (bs[i + 1] - 128) * 4096
                               + (bs[i + 2] - 128) * 64 + (bs[i + 3] - 128)
                    IN IF c < 65536 \/ c > 1114111 THEN bad
                       ELSE Utf8DecodeFrom(bs, i + 4, Append(acc, c))
               ELSE bad
          ELSE bad

Utf8Decode(bs) == Utf8DecodeFrom(bs, 1, <<>>)

\* the base64 alphabet: A-Z, a-z, 0-9, '+', '/'; '=' pads
PadChar == 61
B64Char(v) ==
  IF v < 26 THEN 65 + v
  ELSE IF v < 52 THEN 97 + (v - 26)
  ELSE IF v < 62 THEN 48 + (v - 52)
  ELSE IF v = 62 THEN 43 ELSE 47

\* the 6-bit value of a character; 64 for a character outside the alphabet
B64Value(c) ==
  IF c >= 65 /\ c <= 90 THEN c - 65
  ELSE IF c >= 97 /\ c <= 122 THEN c - 97 + 26
  ELSE IF c >= 48 /\ c <= 57 THEN c - 48 + 52
  ELSE IF c = 43 THEN 62
  ELSE IF c = 47 THEN 63
  ELSE 64

\* base64.b64encode: three bytes make four characters; a last group of one
\* or two bytes is padded with '='
RECURSIVE B64Encode(_)
B64Encode(bs) ==
  IF bs = <<>> THEN <<>>
  ELSE IF Len(bs) = 1
  THEN << B64Char(bs[1] \div 4), B64Char((bs[1] % 4) * 16), PadChar, PadChar >>
  ELSE IF Len(bs) = 2
  THEN << B64Char(bs[1] \div 4),
          B64Char((bs[1] % 4) * 16 + (bs[2] \div 16)),
          B64Char((bs[2] % 16) * 4), PadChar >>
  ELSE << B64Char(bs[1] \div 4),
          B64Char((bs[1] % 4) * 16 + (bs[2] \div 16)),
          B64Char((bs[2] % 16) * 4 + (bs[3] \div 64)),
          B64Char(bs[3] % 64) >> \o B64Encode(SubSeq(bs, 4, Len(bs)))

\* base64.b64decode(s) (validate=False), as binascii.a2b_base64 works:
\* characters outside the alphabet are skipped, each character adds six bits,
\* a pad sequence completing a group ends the input, and an incomplete last
\* group raises binascii.Error.  [ok, bytes]
RECURSIVE B64DecodeFrom(_, _, _, _, _, _)
B64DecodeFrom(cs, i, quad, left, pads, acc) ==
  IF i > Len(cs)
  THEN [ok |-> quad = 0, bytes |-> acc]
  ELSE LET c == cs[i]
           v == B64Value(c)
       IN IF c = PadChar
          THEN IF quad >= 2 /\ quad + pads + 1 >= 4
               THEN [ok |-> TRUE, bytes |-> acc]
               ELSE B64DecodeFrom(cs, i + 1, quad, left,
                                  IF quad >= 2 THEN pads + 1 ELSE pads, acc)
          ELSE IF v = 64
          THEN B64DecodeFrom(cs, i + 1, quad, left, pads, acc)
          ELSE IF quad = 0
          THEN B64DecodeFrom(cs, i + 1, 1, v, 0, acc)
          ELSE IF quad = 1
          THEN B64DecodeFrom(cs, i + 1, 2, v % 16, 0,
                             Append(acc, (left * 4 + (v \div 16)) % 256))
          ELSE IF quad = 2
          THEN B64DecodeFrom(cs, i + 1, 3, v % 4, 0,
                             Append(acc, (left * 16 + (v \div 4)) % 256))
          ELSE B64DecodeFrom(cs, i + 1, 0, 0, 0,
                             Append(acc, (left * 64 + v) % 256))

B64Decode(cs) == B64DecodeFrom(cs, 1, 0, 0, 0, <<>>)

\* (mutation) the bytes are taken for Latin-1: one character per byte
ConvertLatin1(data) ==
  LET b == B64Decode(data)
  IN [ok |-> b.ok, text |-> b.bytes]

\* GistAPI.content's convert(data): base64.b64decode(data).decode('utf-8');
\* ok is FALSE where either step raises
Convert(data) ==
  LET b == B64Decode(data)
  IN IF b.ok THEN Utf8Decode(b.bytes) ELSE [ok |-> FALSE, text |-> <<>>]

\* what the test suite's b64encode(s) sends as a file's content
B64OfText(t) == B64Encode(Utf8Encode(t))

VARIABLES
  pc,         \* position of main / of the running handler
  config,     \* the loaded configuration ([gist] section)
  editor,     \* the editor main resolved
  token,      \* the token main obtained
  args,       \* the parsed command line
  exc,        \* the exception in flight ("none" when there is none)
  exitCode,   \* process exit status; -1 while running
  sent,       \* the HTTP requests sent so far, in order
  served,     \* served[i]: the answer to sent[i] (NoResponse: transport failure)
  request,    \* GistAPI.list: the request object it re-sends
  page,       \* GistAPI.list: `response`, the decoded body of the last page
  gists,      \* GistAPI.list: the accumulated GistInfo records
  stdout,     \* what was printed so far, one entry per print call
  idx,        \* handle_gist_delete: the index of the id the loop is at
  content,    \* handle_gist_content: the mapping gapi.content returned
  tarball,    \* GistAPI.archive: the archive file <id>.tar.gz
  files,      \* handle_gist_create: the FileInfo records collected
  ioReads,    \* how many files, stdin or editor buffers were read
  cwd,        \* the process working directory
  cloneDir,   \* whether the directory <tmpdir>/<id> exists
  stdoutEncoding,  \* the encoding main wraps sys.stdout with
  process,    \* get_value_from_command: the subprocess it ran
  argv,       \* the command line main was given
  calls,      \* the handlers main has called, in order
  configFiles,  \* the file, if any, at each place a configuration is looked for
  configPath, \* load_config_file: the path of the file it read
  instance,   \* authenticate: self.instance of the descriptor of an operation
  held,       \* the callables obtained from the descriptor and not yet dropped
  built,      \* the outcomes of the calls of those callables, in order
  txt,        \* elide: the text it was given
  width,      \* elide: what terminal_width() returned
  elided      \* elide: what it returned

vars == << pc, config, editor, token, args, exc, exitCode, sent, served,
           request, page, gists, stdout, idx, content, tarball, files,
           ioReads, cwd, cloneDir, stdoutEncoding, process, argv, calls,
           configFiles, configPath, instance, held, built, txt, width, elided >>

\* the variables of the functions that main does not reach: the descriptor
\* of an operation used on several instances, elide on a terminal
aloneVars == << instance, held, built, txt, width, elided >>
mainVars == << argv, calls, configFiles, configPath >>

\* the variables of handle_gist_create and of GistAPI.edit
createVars == << files, ioReads >>
editVars == << cwd, cloneDir >>

\* the variables of the handlers other than list
opVars == << idx, content, tarball, createVars, editVars >>

\* the variables of GistAPI.list
listVars == << request, page, gists >>

\* the last HTTP response received (the result of the last GistAPI.send)
response == IF served = <<>> THEN NoResponse ELSE served[Len(served)]

\* ------------------------------------------------------------ command line
\* the subcommands create_gist_parser registers
Cmds == { "list", "edit", "description", "info", "fork", "files", "delete",
          "archive", "content", "create", "clone", "version", "help" }

\* the number of positional arguments each subparser accepts: [min, max]
Arity(cmd) ==
  CASE cmd \in {"list", "version", "help"} -> [min |-> 0, max |-> 0]
    [] cmd \in {"edit", "info", "fork", "files", "archive"} -> [min |-> 1, max |-> 1]
    [] cmd = "description" -> [min |-> 2, max |-> 2]
    [] cmd \in {"content", "clone"} -> [min |-> 1, max |-> 2]
    [] cmd \in {"delete", "create"} -> [min |-> 1, max |-> -1]
    [] OTHER -> [min |-> 0, max |-> 0]

\* A command line, its options already told from its positionals: the
\* options stand together, after the first optsAt positionals (0: before all
\* of them).
Argv(cmd, pos, filename, encrypt, public, decrypt) ==
  [cmd |-> cmd, pos |-> pos, filename |-> filename, encrypt |-> encrypt,
   public |-> public, decrypt |-> decrypt, optsAt |-> 0]

\* whether the command line holds an option
HasOptions(line) ==
  line.filename # NoneV \/ line.encrypt \/ line.public \/ line.decrypt

Plain(cmd, pos) == Argv(cmd, pos, NoneV, FALSE, FALSE, FALSE)

\* the gist ids, file names and paths command lines are made of
Ids == {"id1", "id2"}
GistFileNames == {"file-A.txt", "file-B.txt"}
Paths == {"a/f.txt", "b/f.txt", "g.txt"}
\* the positions at which the options of a create command may stand
MaxOptsAt == 3

\* the FILES of a create command: none, one, two of different names, two of
\* one name in different directories
PathLists ==
  { <<>>, <<"g.txt">>, <<"a/f.txt", "g.txt">>, <<"a/f.txt", "b/f.txt">> }

\* the value of argv before main was given a command line
NoArgv == Plain(NoneV, <<>>)

ArgvSet ==
  { Plain(c, p) : c \in {"list", "version", "help", "bogus"}, p \in {<<>>, <<"id1">>} }
    \cup { Plain(c, p) : c \in {"edit", "info", "fork", "files", "archive"},
                         p \in {<<>>, <<"id1">>, <<"id1", "id2">>} }
    \cup { Plain("description", p) :
             p \in {<<"id1">>, <<"id1", "new-desc">>, <<"id1", "new-desc", "x">>} }
    \cup { Plain("clone", p) :
             p \in {<<>>, <<"id1">>, <<"id1", "name">>, <<"id1", "name", "x">>} }
    \cup { Plain("delete", p) : p \in SeqsUpTo(Ids, MaxIds) }
    \cup { a \in { [Argv("content", p, NoneV, FALSE, FALSE, d) EXCEPT !.optsAt = at] :
                      p \in {<<>>, <<"id1">>, <<"id1", "file-A.txt">>,
                             <<"id1", "other.txt">>, <<"id1", "file-A.txt", "x">>},
                      d \in BOOLEAN, at \in 0..MaxOptsAt } :
             /\ a.optsAt <= Len(a.pos)
             /\ ~a.decrypt => a.optsAt = 0 }
    \cup { a \in { [Argv("create", <<"desc">> \o p, f, e, pu, FALSE)
                        EXCEPT !.optsAt = at] :
                      p \in PathLists, f \in {NoneV, "foo.md"},
                      e \in BOOLEAN, pu \in BOOLEAN, at \in 0..MaxOptsAt } :
             /\ a.optsAt <= Len(a.pos)
             /\ (a.filename = NoneV /\ ~a.encrypt /\ ~a.public) => a.optsAt = 0 }
    \cup { Plain("create", <<>>), Plain("", <<>>) }

\* args before the command line was parsed
NoArgs ==
  [cmd |-> NoneV, id |-> NoneV, ids |-> <<>>, desc |-> NoneV, name |-> NoneV,
   filename |-> NoneV, files |-> <<>>, encrypt |-> FALSE, public |-> FALSE,
   decrypt |-> FALSE]

Opt(pos, i) == IF Len(pos) >= i THEN pos[i] ELSE NoneV

\* argparse matches all the positionals of the subparser against the first
\* run of positional words it meets: positional words that follow options
\* that follow positional words are "unrecognized arguments"
Contiguous(line) ==
  ~HasOptions(line) \/ line.optsAt = 0 \/ line.optsAt >= Len(line.pos)

\* whether parse_args accepts the command line (else Parser.error raises
\* UserError): a registered subcommand, given as many positionals as its
\* subparser declares (a max of -1: nargs "+" or "*", any number)
ParseOk(line) ==
  /\ line.cmd \in Cmds
  /\ Len(line.pos) >= Arity(line.cmd).min
  /\ (Arity(line.cmd).max = -1 \/ Len(line.pos) <= Arity(line.cmd).max)
  /\ Contiguous(line)

\* the namespace parse_args returns for an accepted command line
ParseArgs(line) ==
  LET c == line.cmd
      p == line.pos
  IN [ NoArgs EXCEPT
         !.cmd = c,
         !.id = IF c \in {"edit", "description", "info", "fork", "files",
                          "archive", "content", "clone"} THEN p[1] ELSE NoneV,
         !.ids = IF c = "delete" THEN p ELSE <<>>,
         !.desc = IF c = "description" THEN p[2]
                  ELSE IF c = "create" THEN p[1] ELSE NoneV,
         !.name = IF c = "clone" THEN Opt(p, 2) ELSE NoneV,
         !.filename = IF c = "content" THEN Opt(p, 2) ELSE line.filename,
         !.files = IF c = "create" THEN SubSeq(p, 2, Len(p)) ELSE <<>>,
         !.encrypt = line.encrypt,
         !.public = line.public,
         !.decrypt = line.decrypt ]

\* ------------------------------------------------------------ configuration
\* The text of an option is a sequence of characters: a blank, the mark of a
\* command, a character of a token or of a command line.
ValueChars == {" ", "!", "t"}

\* the tokens the configuration file of main may hold: blank, a literal
\* with blanks around it
TokenValues == { <<" ">>, <<" ", "t", " ">> }

\* the options of the [gist] section
Options == {"token", "editor", "homedir", "fingerprint"}

\* The [gist] section maps the names of the options the file sets to their
\* values.
ConfigSet ==
  { [n \in S |-> full[n]] :
      full \in [ token : TokenValues, editor : {"cfg-editor"},
                 homedir : {"./tests/gnupg"}, fingerprint : {"FINGERPRINT"} ],
      S \in SUBSET Options }

\* config before load_config_file has run
NoConfig == [n \in {} |-> NoneV]

\* config.has_option("gist", name)
has_option(cfg, name) == name \in DOMAIN cfg

\* The places a configuration file is looked for at, in the order
\* load_config_file consults them, and what is at a place: nothing (also:
\* the environment variable of the place is not set), a file that cannot be
\* opened or parsed, a file holding a [gist] section.
ConfigPlaces ==
  << "~/.gist", "~/.config/gist", "$XDG_DATA_HOME/gist", "$GIST_CONFIG" >>
PlaceSet == { ConfigPlaces[i] : i \in 1..Len(ConfigPlaces) }
NoFile == [state |-> "absent", section |-> NoConfig]
Unreadable == [state |-> "unreadable", section |-> NoConfig]
File(c) == [state |-> "file", section |-> c]

\* pathlib.Path.is_file()
is_file(fs, place) == fs[place].state # "absent"

\* homedir_config, alternative_config, xdg_data_config, environment_config:
\* each returns its own path when a file is there, the default it was given
\* otherwise
homedir_config(fs, default) ==
  IF is_file(fs, "~/.gist") THEN "~/.gist" ELSE default

alternative_config(fs, default) ==
  IF is_file(fs, "~/.config/gist") THEN "~/.config/gist" ELSE default

xdg_data_config(fs, default) ==
  IF is_file(fs, "$XDG_DATA_HOME/gist") THEN "$XDG_DATA_HOME/gist" ELSE default

\* (mutation) the path found before is kept
environment_config_unless_found(fs, default) ==
  IF default = NoneV /\ is_file(fs, "$GIST_CONFIG") THEN "$GIST_CONFIG" ELSE default

environment_config(fs, default) ==
  IF is_file(fs, "$GIST_CONFIG") THEN "$GIST_CONFIG" ELSE default

\* load_config_file(): the path is passed through the four functions, the
\* file at it is read; UserError when there is no path or the file cannot be
\* read
load_config_file(fs) ==
  LET config_path ==
        environment_config(fs,
          xdg_data_config(fs, alternative_config(fs, homedir_config(fs, NoneV))))
  IN IF config_path = NoneV
     THEN [exc |-> "UserError", path |-> NoneV, config |-> NoConfig]
     ELSE IF fs[config_path].state = "unreadable"
     THEN [exc |-> "UserError", path |-> config_path, config |-> NoConfig]
     ELSE [exc |-> "none", path |-> config_path, config |-> fs[config_path].section]

\* the file systems main is run on: no configuration file anywhere, or one
\* in the home directory
MainFileSystems ==
  { [p \in PlaceSet |-> NoFile] }
    \cup { [p \in PlaceSet |-> IF p = "~/.gist" THEN File(c) ELSE NoFile] :
             c \in ConfigSet }

\* alternative_editor, environment_editor, configuration_editor: each returns
\* its own editor when it has one, the default it was given otherwise
alternative_editor(exists, default) ==
  IF exists THEN "/usr/bin/editor" ELSE default

environment_editor(envEditor, default) ==
  IF envEditor # "" THEN envEditor ELSE default

configuration_editor(cfg, default) ==
  IF has_option(cfg, "editor") THEN cfg.editor ELSE default

\* ------------------------------------------------- the token of the user
\* str.strip(): the blanks at both ends are removed
RECURSIVE LStrip(_)
LStrip(s) == IF s # <<>> /\ Head(s) = " " THEN LStrip(Tail(s)) ELSE s

RECURSIVE RStrip(_)
RStrip(s) ==
  IF s # <<>> /\ s[Len(s)] = " " THEN RStrip(SubSeq(s, 1, Len(s) - 1)) ELSE s

\* (mutation) only the blanks in front are removed
StripLeftOnly(s) == LStrip(s)

Strip(s) == RStrip(LStrip(s))

\* What becomes of subprocess.Popen(...).communicate(): Popen raises when
\* the program cannot be run; otherwise the process ends with a return code
\* and what it wrote to its standard output.
NoProcess == [error |-> "not run", returncode |-> 0, out |-> <<>>]
CommandOutputs == { <<>>, <<"t">>, <<" ", "t", " ">> }
ProcessSet ==
  { [error |-> "FileNotFoundError", returncode |-> 0, out |-> <<>>] }
    \cup { [error |-> "none", returncode |-> rc, out |-> o] :
             rc \in {0, 1}, o \in CommandOutputs }

\* the outcome of a call: the exception raised ("none": it returned), the
\* value returned, the subprocess it ran
Outcome(e, v, p) == [exc |-> e, value |-> v, process |-> p]

\* get_value_from_command(value), proc being what the subprocess does if
\* one is run: command = value.strip(); command[0] raises IndexError on an
\* empty command; after "!" the rest is split into words and run (Popen of
\* no word raises IndexError); a return code other than 0 raises GistError;
\* otherwise the stripped output is returned. Any other value is returned
\* as it was passed.
get_value_from_command(value, proc) ==
  LET command == Strip(value)
  IN IF command = <<>> THEN Outcome("IndexError", <<>>, NoProcess)
     ELSE IF command[1] = "!"
     THEN IF Strip(Tail(command)) = <<>>
          THEN Outcome("IndexError", <<>>, NoProcess)
          ELSE IF proc.error # "none" THEN Outcome(proc.error, <<>>, proc)
          ELSE IF proc.returncode # 0 THEN Outcome("GistError", <<>>, proc)
          ELSE Outcome("none", Strip(proc.out), proc)
     ELSE Outcome("none", value, NoProcess)

\* get_personal_access_token(config)
get_personal_access_token(cfg, proc) ==
  IF ~has_option(cfg, "token")
  THEN Outcome("GistMissingTokenError", <<>>, NoProcess)
  ELSE LET value == Strip(cfg.token)
       IN IF value = <<>>
          THEN Outcome("GistEmptyTokenError", <<>>, NoProcess)
          ELSE get_value_from_command(value, proc)

\* ----------------------------------------------------------------- main
\* locale.getpreferredencoding(): what wrap_stdout_for_unicode, the first
\* call of main, makes the encoding of sys.stdout
Encodings == {"utf-8", "ascii"}

\* whether a text (a sequence of code points) is made of ASCII only
IsAscii(t) == \A i \in 1..Len(t) : t[i] < 128

\* whether writing the text to sys.stdout succeeds (else UnicodeEncodeError)
Encodable(t) == stdoutEncoding = "utf-8" \/ IsAscii(t)

\* no handler has run
InitOps ==
  /\ sent = <<>>
  /\ served = <<>>
  /\ request = NoRequest
  /\ page = JInvalid
  /\ gists = <<>>
  /\ stdout = <<>>
  /\ idx = 1
  /\ content = <<>>
  /\ tarball = NoTarball
  /\ files = <<>>
  /\ ioReads = 0
  /\ cwd = "orig"
  /\ cloneDir = FALSE

\* terminal_width() returning None
NoWidth == -1

\* no operation was accessed, elide was not called
InitAlone ==
  /\ instance = NoneV
  /\ held = <<>>
  /\ built = <<>>
  /\ txt = <<>>
  /\ width = NoWidth
  /\ elided = <<>>

Init ==
  /\ pc = "start"
  /\ configFiles \in MainFileSystems
  /\ configPath = NoneV
  /\ config = NoConfig
  /\ editor = NoneV
  /\ token = <<>>
  /\ argv = NoArgv
  /\ calls = <<>>
  /\ args = NoArgs
  /\ exc = "none"
  /\ exitCode = -1
  /\ stdoutEncoding \in Encodings
  /\ process = NoProcess
  /\ InitOps
  /\ InitAlone

\* an exception of class e leaves the running code and reaches main's handlers
Raise(e) == pc' = "except" /\ exc' = e

\* main: config = load_config_file(), which raises UserError when no file is
\* found or the file cannot be read
LoadConfig ==
  /\ pc = "start"
  /\ LET o == load_config_file(configFiles)
     IN /\ configPath' = o.path
        /\ IF o.exc = "none"
           THEN config' = o.config /\ pc' = "editor" /\ exc' = exc
           ELSE config' = config /\ Raise(o.exc)
  /\ UNCHANGED << stdoutEncoding, process, argv, calls, configFiles,
                  aloneVars, opVars, editor, token, args, exitCode, sent,
                  served, request, page, gists, stdout >>

\* main: the editor is the configured one, else $EDITOR, else /usr/bin/editor;
\* UserError when there is none
DetermineEditor ==
  /\ pc = "editor"
  /\ \E alt \in BOOLEAN, env \in {"", "gist-placeholder"} :
       LET e == configuration_editor(config,
                  environment_editor(env, alternative_editor(alt, NoneV)))
       IN IF e = NoneV
          THEN editor' = editor /\ Raise("UserError")
          ELSE editor' = e /\ pc' = "token" /\ exc' = exc
  /\ UNCHANGED << stdoutEncoding, process, mainVars, aloneVars, opVars,
                  config, token, args, exitCode, sent, served, request, page,
                  gists, stdout >>

\* (mutation) a token that cannot be obtained is done without
GetTokenOptional ==
  /\ pc = "token"
  /\ \E proc \in ProcessSet :
       LET o == get_personal_access_token(config, proc)
       IN /\ process' = o.process
          /\ token' = IF o.exc # "none" THEN token ELSE o.value
  /\ pc' = "parse"
  /\ UNCHANGED << stdoutEncoding, mainVars, aloneVars, opVars, config, editor,
                  args, exc, exitCode, sent, served, request, page, gists,
                  stdout >>

\* main: token = get_personal_access_token(config); gapi = GistAPI(token, editor)
GetToken ==
  /\ pc = "token"
  /\ \E proc \in ProcessSet :
       LET o == get_personal_access_token(config, proc)
       IN /\ process' = o.process
          /\ IF o.exc # "none"
             THEN token' = token /\ Raise(o.exc)
             ELSE token' = o.value /\ pc' = "parse" /\ exc' = exc
  /\ UNCHANGED << stdoutEncoding, mainVars, aloneVars, opVars, config, editor,
                  args, exitCode, sent, served, request, page, gists, stdout >>

\* the first position of each handler
HandlerEntry(cmd) == cmd

\* main: args = parser.parse_args(argv); args.func(gapi, args, config, editor).
\* A command line without a subcommand is accepted by the parser and has no
\* func: AttributeError.
Parse ==
  /\ pc = "parse"
  /\ \E line \in ArgvSet :
       /\ argv' = line
       /\ IF line.cmd = ""
          THEN args' = args /\ calls' = calls /\ Raise("AttributeError")
          ELSE IF ParseOk(line)
          THEN /\ args' = ParseArgs(line)
               /\ calls' = Append(calls, line.cmd)
               /\ pc' = HandlerEntry(line.cmd)
               /\ exc' = exc
          ELSE args' = args /\ calls' = calls /\ Raise("UserError")
  /\ UNCHANGED << stdoutEncoding, process, configFiles, configPath, aloneVars,
                  opVars, config, editor, token, exitCode, sent, served,
                  request, page, gists, stdout >>

\* ------------------------------------------------------------ GistAPI.list
\* the requests the list endpoint may be answered with: success with any
\* body and link header, or an error status with GitHub's error object
ListResponses ==
  { Response(200, b, l) : b \in ListBodies, l \in LinkSet }
    \cup { Response(401, JObj([message |-> "Bad credentials"]), NoLink) }

\* GistInfo(gist['id'], gist['public'], gist['description'])
GistInfo(id, public, desc) == [id |-> id, public |-> public, desc |-> desc]

\* the elements `for gist in response` visits: the items of a list, the keys
\* (strings) of a dict
JStr == [t |-> "str"]
IterItems(v) ==
  IF v.t = "list" THEN v.elems
  ELSE [i \in 1..Cardinality(DOMAIN v.d) |-> JStr]

\* gist[key] for a decoded JSON value: "ok" on a dict holding the key,
\* KeyError on a dict lacking it, TypeError on anything that is no dict
Subscript(v, key) ==
  IF v.t # "dict" THEN "TypeError"
  ELSE IF key \in DOMAIN v.d THEN "ok" ELSE "KeyError"

\* the outcome of building GistInfo(gist['id'], gist['public'],
\* gist['description']): the subscripts are evaluated in that order and the
\* first that raises decides
BuildOutcome(e) ==
  IF Subscript(e, "id") # "ok" THEN Subscript(e, "id")
  ELSE IF Subscript(e, "public") # "ok" THEN Subscript(e, "public")
  ELSE Subscript(e, "description")

\* (mutation) an element raising KeyError ends the loop instead of being
\* skipped (break for continue)
RECURSIVE ExtractLoopBreak(_, _, _)
ExtractLoopBreak(elems, i, acc) ==
  IF i > Len(elems) THEN [raised |-> "none", gists |-> acc]
  ELSE LET e == elems[i]
           o == BuildOutcome(e)
       IN IF o = "ok"
          THEN ExtractLoopBreak(elems, i + 1,
                 Append(acc, GistInfo(e.d.id, e.d.public, e.d.description)))
          ELSE IF o = "KeyError"
          THEN [raised |-> "none", gists |-> acc]
          ELSE [raised |-> o, gists |-> acc]

\* the for loop of GistAPI.list over one page: each element is appended as a
\* GistInfo, an element raising KeyError is skipped, and any other exception
\* leaves the loop (and list)
RECURSIVE ExtractLoop(_, _, _)
ExtractLoop(elems, i, acc) ==
  IF i > Len(elems) THEN [raised |-> "none", gists |-> acc]
  ELSE LET e == elems[i]
           o == BuildOutcome(e)
       IN IF o = "ok"
          THEN ExtractLoop(elems, i + 1,
                 Append(acc, GistInfo(e.d.id, e.d.public, e.d.description)))
          ELSE IF o = "KeyError"
          THEN ExtractLoop(elems, i + 1, acc)
          ELSE [raised |-> o, gists |-> acc]

\* (mutation) the headers of the HTTP response itself, as if list had kept
\* the Response object instead of overwriting it with its decoded body
ListHeadersOfHttpResponse == [raised |-> FALSE, link |-> response.link]

\* response.headers as GistAPI.list evaluates it: `response` is there the
\* decoded body (send(request).json()), a list or a dict, and neither has a
\* headers attribute: the lookup raises AttributeError
ListHeaders ==
  IF "headers" \in DOMAIN page
  THEN [raised |-> FALSE, link |-> page.headers]
  ELSE [raised |-> TRUE, link |-> NoLink]

\* the first entry of the link header whose rel is "next"; 0 when none
RECURSIVE FindNext(_, _)
FindNext(link, i) ==
  IF i > Len(link) THEN 0
  ELSE IF link[i].rel = "next" THEN i
  ELSE FindNext(link, i + 1)

\* handle_gist_list calls gapi.list(): the request is built, gists = []
ListBegin ==
  /\ pc = "list"
  /\ request' = Request("GET", BaseUrl, [access_token |-> token, per_page |-> 100])
  /\ gists' = <<>>
  /\ pc' = "list_send"
  /\ UNCHANGED << stdoutEncoding, process, mainVars, aloneVars, opVars,
                  config, editor, token, args, exc, exitCode, sent, served,
                  page, stdout >>

\* (mutation) a request that failed, or whose answer is not JSON, is sent
\* again
ListSendRetrying ==
  /\ pc = "list_send"
  /\ Len(sent) < MaxRequests
  /\ sent' = Append(sent, request)
  /\ \E r \in ListResponses \cup {NoResponse} :
       /\ served' = Append(served, r)
       /\ IF r.body = JInvalid
          THEN page' = page /\ pc' = "list_send"
          ELSE page' = r.body /\ pc' = "list_extract"
  /\ UNCHANGED << stdoutEncoding, process, mainVars, aloneVars, opVars,
                  config, editor, token, args, exc, exitCode, request, gists,
                  stdout >>

\* response = self.send(request).json(); any exception breaks out of the
\* loop and list returns what it has accumulated
ListSend ==
  /\ pc = "list_send"
  /\ Len(sent) < MaxRequests
  /\ sent' = Append(sent, request)
  /\ \E r \in ListResponses \cup {NoResponse} :
       /\ served' = Append(served, r)
       /\ IF r.body = JInvalid
          THEN page' = page /\ pc' = "list_print"
          ELSE page' = r.body /\ pc' = "list_extract"
  /\ UNCHANGED << stdoutEncoding, process, mainVars, aloneVars, opVars,
                  config, editor, token, args, exc, exitCode, request, gists,
                  stdout >>

\* for gist in response: try: gists.append(GistInfo(...)) except KeyError
ListExtract ==
  /\ pc = "list_extract"
  /\ LET r == ExtractLoop(IterItems(page), 1, gists)
     IN IF r.raised = "none"
        THEN gists' = r.gists /\ pc' = "list_link" /\ exc' = exc
        ELSE gists' = r.gists /\ Raise(r.raised)
  /\ UNCHANGED << stdoutEncoding, process, mainVars, aloneVars, opVars,
                  config, editor, token, args, exitCode, sent, served,
                  request, page, stdout >>

\* try: link = response.headers['link']; the first entry with rel "next"
\* becomes the request URL and the loop goes on; with no such entry list
\* returns; any exception breaks out of the loop and list returns
ListLink ==
  /\ pc = "list_link"
  /\ LET h == ListHeaders
         n == FindNext(h.link, 1)
     IN IF h.raised \/ h.link = NoLink \/ n = 0
        THEN request' = request /\ pc' = "list_print"
        ELSE request' = [request EXCEPT !.url = h.link[n].url] /\ pc' = "list_send"
  /\ UNCHANGED << stdoutEncoding, process, mainVars, aloneVars, opVars,
                  config, editor, token, args, exc, exitCode, sent, served,
                  page, gists, stdout >>

\* (mutation) a null description is formatted as it is
ListLineNullAsNone(info) ==
  [id |-> info.id, flag |-> IF info.public THEN "+" ELSE "-", desc |-> info.desc]

\* the line handle_gist_list prints for one GistInfo (no terminal: elide
\* returns its argument)
ListLine(info) ==
  [id |-> info.id,
   flag |-> IF info.public THEN "+" ELSE "-",
   desc |-> IF info.desc = NoneV THEN "" ELSE info.desc]

\* the descriptions that hold a character outside ASCII
NonAsciiDescs == {"test-desc-U+212C"}

\* whether print(line) succeeds: a line sys.stdout cannot encode raises
\* UnicodeEncodeError, which handle_gist_list catches and logs
LineEncodable(line) ==
  stdoutEncoding = "utf-8" \/ line.desc \notin NonAsciiDescs

\* handle_gist_list: gists = gapi.list(); one line is printed per record,
\* but for the lines that cannot be encoded
ListPrint ==
  /\ pc = "list_print"
  /\ stdout' = stdout \o SelectSeq([i \in 1..Len(gists) |-> ListLine(gists[i])],
                                   LineEncodable)
  /\ pc' = "return"
  /\ UNCHANGED << stdoutEncoding, process, mainVars, aloneVars, opVars,
                  config, editor, token, args, exc, exitCode, sent, served,
                  request, page, gists >>

\* ------------------------------------------------- the decorated operations
\* (mutation) the request is built without the token
AuthRequestAnonymous(method) == Request(method, BaseUrl, [per_page |-> 100])

\* authenticate.__call__: the request every decorated operation is handed,
\* built with the method of the decorator and the token of the instance
AuthRequest(method) == Request(method, BaseUrl, [access_token |-> token])

\* (mutation) the stem is dropped
WithStemDropped(req, stem) == req

\* GistAPI.send(request, stem): the stem is appended to the request's URL
WithStem(req, stem) == [req EXCEPT !.url.path = @ \o stem]

\* the answers to a request for one gist: the gist, an empty 204, GitHub's
\* error object with a 404, a gateway's non-JSON error page
GistDetail(fileMap) ==
  JObj([html_url |-> "https://gist.github.com/id1", files |-> fileMap])

\* the file maps a gist may hold: every file name to some content
ContentSet ==
  { B64OfText(t) : t \in Texts } \cup { <<81, 81>>, B64Encode(<<255>>) }
SecondContents ==
  { B64OfText(<<8492>>), B64OfText(<<233, 8492>>), <<81, 81>> }
FilesSet ==
  { f \in UNION { [S -> { [content |-> c] : c \in ContentSet }] :
                    S \in SUBSET GistFileNames } :
      DOMAIN f = GistFileNames => f["file-B.txt"].content \in SecondContents }

\* the gist of the test suite: two files
TwoFiles ==
  [n \in GistFileNames |->
     [content |-> IF n = "file-A.txt" THEN B64OfText(<<65>>) ELSE B64OfText(<<8492>>)]]

ErrorResponses ==
  { Response(404, JObj([message |-> "Not Found"]), NoLink),
    Response(502, JInvalid, NoLink) }

GistResponses ==
  { Response(200, GistDetail(TwoFiles), NoLink), Response(204, JInvalid, NoLink) }
    \cup ErrorResponses

ContentResponses ==
  { Response(200, GistDetail(f), NoLink) : f \in FilesSet } \cup ErrorResponses

\* the order in which a gist's files come in the server's JSON
FileOrder == <<"file-A.txt", "file-B.txt">>
\* (mutation) only the first file of the server's order is kept
InOrderFirstOnly(names) ==
  SelectSeq(FileOrder, LAMBDA n : n \in names /\ n = FileOrder[1])
InOrder(names) == SelectSeq(FileOrder, LAMBDA n : n \in names)

\* response.json(): "ok", or the exception it ends with
JsonOutcome(r) ==
  IF r = NoResponse THEN "ConnectionError"
  ELSE IF r.body = JInvalid THEN "JSONDecodeError"
  ELSE "ok"

\* response.json()[key]
JsonKeyOutcome(r, key) ==
  IF JsonOutcome(r) # "ok" THEN JsonOutcome(r)
  ELSE IF key \in DOMAIN r.body.d THEN "ok" ELSE "KeyError"

\* (mutation) a delete that failed is logged and the loop goes on
DeleteContinuing ==
  /\ pc = "delete"
  /\ sent' = Append(sent, WithStem(AuthRequest("DELETE"), <<args.ids[idx]>>))
  /\ \E r \in GistResponses \cup {NoResponse} : served' = Append(served, r)
  /\ idx' = idx + 1
  /\ pc' = IF idx = Len(args.ids) THEN "return" ELSE "delete"
  /\ UNCHANGED << stdoutEncoding, process, mainVars, aloneVars, listVars,
                  createVars, editVars, config, editor, token, args, exc,
                  exitCode, stdout, content, tarball >>

\* handle_gist_delete: for gist_id in args.ids: gapi.delete(gist_id);
\* GistAPI.delete sends the request and looks at nothing in the answer
Delete ==
  /\ pc = "delete"
  /\ sent' = Append(sent, WithStem(AuthRequest("DELETE"), <<args.ids[idx]>>))
  /\ \E r \in GistResponses \cup {NoResponse} :
       /\ served' = Append(served, r)
       /\ IF r = NoResponse
          THEN Raise("ConnectionError") /\ idx' = idx
          ELSE /\ idx' = idx + 1
               /\ pc' = IF idx = Len(args.ids) THEN "return" ELSE "delete"
               /\ exc' = exc
  /\ UNCHANGED << stdoutEncoding, process, mainVars, aloneVars, listVars,
                  createVars, editVars, config, editor, token, args, exitCode,
                  stdout, content, tarball >>

\* (mutation) a request that failed is sent again
InfoRetrying ==
  /\ pc = "info"
  /\ sent' = Append(sent, WithStem(AuthRequest("GET"), <<args.id>>))
  /\ \E r \in GistResponses \cup {NoResponse} :
       /\ served' = Append(served, r)
       /\ IF JsonOutcome(r) # "ok"
          THEN /\ stdout' = stdout
               /\ IF Len(sent) + 1 < MaxRequests
                  THEN pc' = "info" /\ exc' = exc
                  ELSE Raise(JsonOutcome(r))
          ELSE /\ stdout' = Append(stdout, [kind |-> "json", value |-> r.body.d])
               /\ pc' = "return"
               /\ exc' = exc
  /\ UNCHANGED << stdoutEncoding, process, mainVars, aloneVars, listVars,
                  opVars, config, editor, token, args, exitCode >>

\* handle_gist_info: info = gapi.info(args.id); print(json.dumps(info));
\* GistAPI.info returns send(request, id).json()
Info ==
  /\ pc = "info"
  /\ sent' = Append(sent, WithStem(AuthRequest("GET"), <<args.id>>))
  /\ \E r \in GistResponses \cup {NoResponse} :
       /\ served' = Append(served, r)
       /\ IF JsonOutcome(r) # "ok"
          THEN Raise(JsonOutcome(r)) /\ stdout' = stdout
          ELSE /\ stdout' = Append(stdout, [kind |-> "json", value |-> r.body.d])
               /\ pc' = "return"
               /\ exc' = exc
  /\ UNCHANGED << stdoutEncoding, process, mainVars, aloneVars, listVars,
                  opVars, config, editor, token, args, exitCode >>

\* handle_gist_fork: _ = gapi.fork(args.id); GistAPI.fork returns the
\* response of send(request, '<id>/forks') as it is
Fork ==
  /\ pc = "fork"
  /\ sent' = Append(sent, WithStem(AuthRequest("POST"), <<args.id, "forks">>))
  /\ \E r \in GistResponses \cup {NoResponse} :
       /\ served' = Append(served, r)
       /\ IF r = NoResponse
          THEN Raise("ConnectionError")
          ELSE pc' = "return" /\ exc' = exc
  /\ UNCHANGED << stdoutEncoding, process, mainVars, aloneVars, listVars,
                  opVars, config, editor, token, args, exitCode, stdout >>

\* handle_gist_description: gapi.description(args.id, args.desc);
\* GistAPI.description sets the body and returns
\* send(request, id).json()['html_url']
Description ==
  /\ pc = "description"
  /\ sent' = Append(sent,
       [WithStem(AuthRequest("PATCH"), <<args.id>>)
          EXCEPT !.data = [description |-> args.desc]])
  /\ \E r \in GistResponses \cup {NoResponse} :
       /\ served' = Append(served, r)
       /\ IF JsonKeyOutcome(r, "html_url") # "ok"
          THEN Raise(JsonKeyOutcome(r, "html_url"))
          ELSE pc' = "return" /\ exc' = exc
  /\ UNCHANGED << stdoutEncoding, process, mainVars, aloneVars, listVars,
                  opVars, config, editor, token, args, exitCode, stdout >>

\* handle_gist_files: for f in gapi.files(args.id): print(f);
\* GistAPI.files returns send(request, id).json()['files']
Files ==
  /\ pc = "files"
  /\ sent' = Append(sent, WithStem(AuthRequest("GET"), <<args.id>>))
  /\ \E r \in GistResponses \cup {NoResponse} :
       /\ served' = Append(served, r)
       /\ IF JsonKeyOutcome(r, "files") # "ok"
          THEN Raise(JsonKeyOutcome(r, "files")) /\ stdout' = stdout
          ELSE /\ LET names == InOrder(DOMAIN r.body.d.files)
                  IN stdout' = stdout \o
                       [i \in 1..Len(names) |-> [kind |-> "name", name |-> names[i]]]
               /\ pc' = "return"
               /\ exc' = exc
  /\ UNCHANGED << stdoutEncoding, process, mainVars, aloneVars, listVars,
                  opVars, config, editor, token, args, exitCode >>

\* handle_gist_archive: gapi.archive(args.id); GistAPI.archive decodes the
\* answer, opens <id>.tar.gz for writing and adds one member per file,
\* holding the content field as it came
Archive ==
  /\ pc = "archive"
  /\ sent' = Append(sent, WithStem(AuthRequest("GET"), <<args.id>>))
  /\ \E r \in GistResponses \cup {NoResponse} :
       /\ served' = Append(served, r)
       /\ IF JsonOutcome(r) # "ok"
          THEN Raise(JsonOutcome(r)) /\ tarball' = tarball
          ELSE IF JsonKeyOutcome(r, "files") # "ok"
          THEN /\ Raise("KeyError")
               /\ tarball' = [exists |-> TRUE, members |-> <<>>]
          ELSE /\ tarball' =
                    [exists |-> TRUE,
                     members |-> [n \in DOMAIN r.body.d.files |->
                                    r.body.d.files[n].content]]
               /\ pc' = "return"
               /\ exc' = exc
  /\ UNCHANGED << stdoutEncoding, process, mainVars, aloneVars, listVars,
                  createVars, editVars, idx, content, config, editor, token,
                  args, exitCode, stdout >>

\* GistAPI.content: gist = send(request, id).json(); every file's content is
\* converted; the mapping from file name to text is returned
ContentOutcome(r) ==
  IF JsonKeyOutcome(r, "files") # "ok" THEN JsonKeyOutcome(r, "files")
  ELSE IF \E n \in DOMAIN r.body.d.files : ~Convert(r.body.d.files[n].content).ok
  THEN "ValueError"
  ELSE "ok"

ContentOf(r) ==
  [n \in DOMAIN r.body.d.files |-> Convert(r.body.d.files[n].content).text]

\* handle_gist_content: content = gapi.content(args.id)
Content ==
  /\ pc = "content"
  /\ sent' = Append(sent, WithStem(AuthRequest("GET"), <<args.id>>))
  /\ \E r \in ContentResponses \cup {NoResponse} :
       /\ served' = Append(served, r)
       /\ IF ContentOutcome(r) # "ok"
          THEN Raise(ContentOutcome(r)) /\ content' = content
          ELSE content' = ContentOf(r) /\ pc' = "content_print" /\ exc' = exc
  /\ UNCHANGED << stdoutEncoding, process, mainVars, aloneVars, listVars,
                  createVars, editVars, idx, tarball, config, editor, token,
                  args, exitCode, stdout >>

\* gpg.encrypt(data, fingerprint) and gpg.decrypt(data) of the external
\* gnupg tool: the armoured ciphertext of a text differs from the text and
\* decrypts to it; what is no ciphertext decrypts to nothing
ArmorChar == 45
Encrypt(t) == << ArmorChar >> \o [i \in 1..Len(t) |-> t[i] + 1]
Decrypt(c) ==
  IF c # <<>> /\ c[1] = ArmorChar
  THEN [i \in 1..(Len(c) - 1) |-> c[i + 1] - 1]
  ELSE <<>>

\* handle_gist_content, after gapi.content returned: the file named on the
\* command line, when the gist has it, is printed alone; otherwise every
\* file is printed under its name; with --decrypt each text is decrypted,
\* which needs gnupg-homedir.  A print of what sys.stdout cannot encode
\* raises UnicodeEncodeError and what was printed before it stays printed.
ContentPrint ==
  /\ pc = "content_print"
  /\ LET hasFile == args.filename \in DOMAIN content
         names == InOrder(DOMAIN content)
         text(n) == IF args.decrypt THEN Decrypt(content[n]) ELSE content[n]
         blocks == [i \in 1..Len(names) |->
                      [kind |-> "block", name |-> names[i],
                       decrypted |-> args.decrypt, text |-> text(names[i])]]
         bad == { i \in 1..Len(names) : ~Encodable(text(names[i])) }
         printed == IF bad = {} THEN Len(names)
                    ELSE (CHOOSE i \in bad : \A j \in bad : i <= j) - 1
     IN IF args.decrypt /\ ~has_option(config, "homedir")
        THEN Raise("GistError") /\ stdout' = stdout
        ELSE IF hasFile
        THEN IF Encodable(text(args.filename))
             THEN /\ stdout' = Append(stdout,
                                  [kind |-> "text", text |-> text(args.filename)])
                  /\ pc' = "return"
                  /\ exc' = exc
             ELSE Raise("UnicodeEncodeError") /\ stdout' = stdout
        ELSE /\ stdout' = stdout \o SubSeq(blocks, 1, printed)
             /\ IF bad = {}
                THEN pc' = "return" /\ exc' = exc
                ELSE Raise("UnicodeEncodeError")
  /\ UNCHANGED << stdoutEncoding, process, mainVars, aloneVars, listVars,
                  opVars, config, editor, token, args, exitCode, sent, served >>

\* ------------------------------------------------------ handle_gist_create
\* the texts a file, stdin or the editor buffer may hold
FileTexts == { <<>>, <<65>>, <<8492, 65>> }

\* FileInfo(name, content)
FileInfo(name, text) == [name |-> name, content |-> text]

\* os.path.basename
Basename(path) ==
  CASE path = "a/f.txt" -> "f.txt"
    [] path = "b/f.txt" -> "f.txt"
    [] OTHER -> path

\* the name given to what is read from stdin or from the editor
DefaultName == IF args.filename = NoneV THEN "file1.txt" ELSE args.filename

\* (mutation) only gnupg-homedir is looked for
EncryptConfigMissingHomedirOnly ==
  args.encrypt /\ ~has_option(config, "homedir")

\* if args.encrypt: gnupg-homedir, then gnupg-fingerprint, must be options of
\* the configuration
EncryptConfigMissing ==
  args.encrypt /\ ( ~has_option(config, "homedir")
                    \/ ~has_option(config, "fingerprint") )

\* the initial check of an encrypting create, made before any data is read
CreateCheckEncrypt ==
  /\ pc = "create"
  /\ IF EncryptConfigMissing
     THEN Raise("GistError")
     ELSE pc' = "create_collect" /\ exc' = exc
  /\ UNCHANGED << stdoutEncoding, process, mainVars, aloneVars, listVars,
                  opVars, config, editor, token, args, exitCode, sent, served,
                  stdout >>

\* the data of the gist is read: from the FILES paths or, with none, from the
\* editor when stdin is a terminal, from stdin otherwise; a path that cannot
\* be opened raises and the paths after it are not read
CreateCollect ==
  /\ pc = "create_collect"
  /\ \E tty \in BOOLEAN :
       IF tty /\ args.files # <<>>
       THEN \E unreadable \in 0..Len(args.files) :
            \E texts \in [1..Len(args.files) -> FileTexts] :
              IF unreadable # 0
              THEN /\ files' = [i \in 1..(unreadable - 1) |->
                                  FileInfo(Basename(args.files[i]), texts[i])]
                   /\ ioReads' = ioReads + (unreadable - 1)
                   /\ Raise("FileNotFoundError")
              ELSE /\ files' = [i \in 1..Len(args.files) |->
                                  FileInfo(Basename(args.files[i]), texts[i])]
                   /\ ioReads' = ioReads + Len(args.files)
                   /\ pc' = "create_check"
                   /\ exc' = exc
       ELSE \E text \in FileTexts :
              /\ files' = << FileInfo(DefaultName, text) >>
              /\ ioReads' = ioReads + 1
              /\ pc' = "create_check"
              /\ exc' = exc
  /\ UNCHANGED << stdoutEncoding, process, mainVars, aloneVars, listVars,
                  editVars, idx, content, tarball, config, editor, token,
                  args, exitCode, sent, served, stdout >>

\* (mutation) only the first file is looked at
AnyEmptyFirstOnly(fs) == fs # <<>> /\ Len(fs[1].content) = 0

\* for file in files: if len(file.content) == 0: raise GistError
AnyEmpty(fs) == \E i \in 1..Len(fs) : Len(fs[i].content) = 0

CreateCheckEmpty ==
  /\ pc = "create_check"
  /\ IF AnyEmpty(files)
     THEN Raise("GistError")
     ELSE pc' = "create_send" /\ exc' = exc
  /\ UNCHANGED << stdoutEncoding, process, mainVars, aloneVars, listVars,
                  opVars, config, editor, token, args, exitCode, sent, served,
                  stdout >>

\* the last index of fs whose file has the name n
LastNamed(fs, n) ==
  CHOOSE i \in 1..Len(fs) :
    fs[i].name = n /\ \A j \in (i + 1)..Len(fs) : fs[j].name # n

\* (mutation) the name is kept as it is
AscNameSame(n) == n

\* "{}.asc".format(file.name)
AscName(n) ==
  CASE n = "f.txt" -> "f.txt.asc"
    [] n = "g.txt" -> "g.txt.asc"
    [] n = "foo.md" -> "foo.md.asc"
    [] OTHER -> "file1.txt.asc"

\* gpg.encrypt(...).data: the ciphertext, or nothing when gpg failed (an
\* unknown or untrusted recipient); the result's status is not looked at
GpgEncrypt(t, gpgOk) == IF gpgOk THEN Encrypt(t) ELSE <<>>

\* the files map of the request body: with --encrypt each file is stored
\* under "<name>.asc" with what gpg made of it, without it under its name
\* as it is; a name met again replaces the entry made before
CreateData(fs, encrypt, gpgOk) ==
  LET names == { fs[i].name : i \in 1..Len(fs) }
  IN IF encrypt
     THEN [a \in { AscName(n) : n \in names } |->
             LET n == CHOOSE m \in names : AscName(m) = a
             IN [content |-> GpgEncrypt(fs[LastNamed(fs, n)].content, gpgOk)]]
     ELSE [n \in names |-> [content |-> fs[LastNamed(fs, n)].content]]

\* print(gapi.create(args.desc, data, args.public)); GistAPI.create posts
\* the body and returns send(request).json()['html_url']
CreateSend ==
  /\ pc = "create_send"
  /\ \E gpgOk \in BOOLEAN :
       sent' = Append(sent,
         [AuthRequest("POST") EXCEPT
            !.data = [description |-> args.desc, public |-> args.public,
                      files |-> CreateData(files, args.encrypt, gpgOk)]])
  /\ \E r \in GistResponses \cup {NoResponse} :
       /\ served' = Append(served, r)
       /\ IF JsonKeyOutcome(r, "html_url") # "ok"
          THEN Raise(JsonKeyOutcome(r, "html_url")) /\ stdout' = stdout
          ELSE /\ stdout' = Append(stdout, [kind |-> "url", url |-> r.body.d.html_url])
               /\ pc' = "return"
               /\ exc' = exc
  /\ UNCHANGED << stdoutEncoding, process, mainVars, aloneVars, listVars,
                  opVars, config, editor, token, args, exitCode >>

\* --------------------------------------------------- GistAPI.edit and clone
\* handle_gist_edit calls gapi.edit(args.id): pushd(tempfile.gettempdir())
\* remembers the working directory and enters the temporary directory
EditBegin ==
  /\ pc = "edit"
  /\ cwd' = "tmp"
  /\ pc' = "edit_clone"
  /\ UNCHANGED << stdoutEncoding, process, mainVars, aloneVars, listVars,
                  createVars, idx, content, tarball, cloneDir, config, editor,
                  token, args, exc, exitCode, sent, served, stdout >>

\* self.clone(id): os.system('git clone ...'), whose exit status is not
\* looked at: the clone directory exists afterwards when git succeeded
EditClone ==
  /\ pc = "edit_clone"
  /\ \E cloned \in BOOLEAN : cloneDir' = cloned
  /\ pc' = "edit_pushd"
  /\ UNCHANGED << stdoutEncoding, process, mainVars, aloneVars, listVars,
                  createVars, idx, content, tarball, cwd, config, editor,
                  token, args, exc, exitCode, sent, served, stdout >>

\* with pushd(id): os.chdir(id) raises when the directory is not there
EditPushd ==
  /\ pc = "edit_pushd"
  /\ IF cloneDir
     THEN cwd' = "clone" /\ pc' = "edit_listdir" /\ exc' = exc
     ELSE cwd' = cwd /\ pc' = "edit_finally" /\ exc' = "FileNotFoundError"
  /\ UNCHANGED << stdoutEncoding, process, mainVars, aloneVars, listVars,
                  createVars, idx, content, tarball, cloneDir, config, editor,
                  token, args, exitCode, sent, served, stdout >>

\* files = [f for f in os.listdir('.') ...]: an exception raised here leaves
\* the with block through pushd's yield, and nothing after the yield runs:
\* the working directory stays the clone directory
EditListFiles ==
  /\ pc = "edit_listdir"
  /\ \E listed \in BOOLEAN :
       IF listed
       THEN pc' = "edit_editor" /\ exc' = exc
       ELSE pc' = "edit_finally" /\ exc' = "OSError"
  /\ UNCHANGED << stdoutEncoding, process, mainVars, aloneVars, listVars,
                  opVars, config, editor, token, args, exitCode, sent, served,
                  stdout >>

\* os.system(editor ...), then os.system('git commit -av && git push'):
\* neither exit status is looked at; the with block ends and pushd returns
\* to the directory it came from, the temporary directory
EditEditorAndPush ==
  /\ pc = "edit_editor"
  /\ cwd' = "tmp"
  /\ pc' = "edit_finally"
  /\ UNCHANGED << stdoutEncoding, process, mainVars, aloneVars, listVars,
                  createVars, idx, content, tarball, cloneDir, config, editor,
                  token, args, exc, exitCode, sent, served, stdout >>

\* finally: shutil.rmtree(id), the path relative to the working directory:
\* it removes <tmpdir>/<id> from the temporary directory and raises
\* FileNotFoundError when there is no such entry; the outer pushd restores
\* the first directory only when no exception is in flight
EditFinally ==
  /\ pc = "edit_finally"
  /\ IF cwd = "tmp" /\ cloneDir
     THEN /\ cloneDir' = FALSE
          /\ IF exc = "none"
             THEN cwd' = "orig" /\ pc' = "return" /\ exc' = exc
             ELSE cwd' = cwd /\ Raise(exc)
     ELSE /\ cloneDir' = cloneDir
          /\ cwd' = cwd
          /\ Raise("FileNotFoundError")
  /\ UNCHANGED << stdoutEncoding, process, mainVars, aloneVars, listVars,
                  createVars, idx, content, tarball, config, editor, token,
                  args, exitCode, sent, served, stdout >>

\* handle_gist_clone: gapi.clone(args.id, args.name) runs git and returns
Clone ==
  /\ pc = "clone"
  /\ pc' = "return"
  /\ UNCHANGED << stdoutEncoding, process, mainVars, aloneVars, listVars,
                  opVars, config, editor, token, args, exc, exitCode, sent,
                  served, stdout >>

\* handle_gist_version and handle_gist_help print and return
VersionOrHelp ==
  /\ pc \in {"version", "help"}
  /\ stdout' = Append(stdout, [kind |-> pc])
  /\ pc' = "return"
  /\ UNCHANGED << stdoutEncoding, process, mainVars, aloneVars, listVars,
                  opVars, config, editor, token, args, exc, exitCode, sent,
                  served >>

\* main: the except clauses; each ends with sys.exit(1)
MainExcept ==
  /\ pc = "except"
  /\ pc' = "exited"
  /\ exitCode' = 1
  /\ UNCHANGED << stdoutEncoding, process, mainVars, aloneVars, opVars,
                  config, editor, token, args, exc, sent, served, request,
                  page, gists, stdout >>

\* main returns after the handler returned: the process ends with status 0
MainReturn ==
  /\ pc = "return"
  /\ pc' = "exited"
  /\ exitCode' = 0
  /\ UNCHANGED << stdoutEncoding, process, mainVars, aloneVars, opVars,
                  config, editor, token, args, exc, sent, served, request,
                  page, gists, stdout >>

\* ------------------------------------------------------------ specification
Next ==
  \/ LoadConfig
  \/ DetermineEditor
  \/ GetToken
  \/ Parse
  \/ ListBegin
  \/ ListSend
  \/ ListExtract
  \/ ListLink
  \/ ListPrint
  \/ Delete
  \/ Info
  \/ Fork
  \/ Description
  \/ Files
  \/ Archive
  \/ Content
  \/ ContentPrint
  \/ CreateCheckEncrypt
  \/ CreateCollect
  \/ CreateCheckEmpty
  \/ CreateSend
  \/ EditBegin
  \/ EditClone
  \/ EditPushd
  \/ EditListFiles
  \/ EditEditorAndPush
  \/ EditFinally
  \/ Clone
  \/ VersionOrHelp
  \/ MainExcept
  \/ MainReturn

Spec == Init /\ [][Next]_vars

\* ------------------------------- the functions of the token, called alone
\* get_value_from_command and get_personal_access_token are functions of
\* the module that the tests call on configurations of their own: a
\* behaviour of SpecValue is one such call.
Values == SeqsUpTo(ValueChars, MaxValueLen)

InitValue ==
  /\ pc = "call"
  /\ config \in { NoConfig } \cup { [n \in {"token"} |-> v] : v \in Values }
  /\ configFiles = [p \in PlaceSet |-> NoFile]
  /\ configPath = NoneV
  /\ editor = NoneV
  /\ token = <<>>
  /\ argv = NoArgv
  /\ calls = <<>>
  /\ args = NoArgs
  /\ exc = "none"
  /\ exitCode = -1
  /\ stdoutEncoding = "utf-8"
  /\ process = NoProcess
  /\ InitOps
  /\ InitAlone

\* get_value_from_command(value) is called on the text of the option
CallGetValueFromCommand ==
  /\ pc = "call"
  /\ has_option(config, "token")
  /\ \E proc \in ProcessSet :
       LET o == get_value_from_command(config.token, proc)
       IN token' = o.value /\ exc' = o.exc /\ process' = o.process
  /\ pc' = "value_done"
  /\ UNCHANGED << stdoutEncoding, mainVars, aloneVars, listVars, opVars,
                  config, editor, args, exitCode, sent, served, stdout >>

\* get_personal_access_token(config) is called on the configuration
CallGetPersonalAccessToken ==
  /\ pc = "call"
  /\ \E proc \in ProcessSet :
       LET o == get_personal_access_token(config, proc)
       IN token' = o.value /\ exc' = o.exc /\ process' = o.process
  /\ pc' = "token_done"
  /\ UNCHANGED << stdoutEncoding, mainVars, aloneVars, listVars, opVars,
                  config, editor, args, exitCode, sent, served, stdout >>

NextValue == CallGetValueFromCommand \/ CallGetPersonalAccessToken

SpecValue == InitValue /\ [][NextValue]_vars

\* ---------------------------------------------- load_config_file, called alone
\* load_config_file reads the file system and the environment only: a
\* behaviour of SpecConfig is one call of it on a file system where each of
\* the four places holds nothing, an unreadable file or a file with a
\* section.
ConfigSections == { NoConfig, [n \in {"token"} |-> << "t" >>] }

FileStates == { NoFile, Unreadable } \cup { File(c) : c \in ConfigSections }

FileSystems == [PlaceSet -> FileStates]

InitConfig ==
  /\ pc = "call"
  /\ configFiles \in FileSystems
  /\ configPath = NoneV
  /\ config = NoConfig
  /\ editor = NoneV
  /\ token = <<>>
  /\ argv = NoArgv
  /\ calls = <<>>
  /\ args = NoArgs
  /\ exc = "none"
  /\ exitCode = -1
  /\ stdoutEncoding = "utf-8"
  /\ process = NoProcess
  /\ InitOps
  /\ InitAlone

CallLoadConfigFile ==
  /\ pc = "call"
  /\ LET o == load_config_file(configFiles)
     IN configPath' = o.path /\ config' = o.config /\ exc' = o.exc
  /\ pc' = "config_done"
  /\ UNCHANGED << stdoutEncoding, process, argv, calls, configFiles,
                  aloneVars, listVars, opVars, editor, token, args, exitCode,
                  sent, served, stdout >>

SpecConfig == InitConfig /\ [][CallLoadConfigFile]_vars

\* ------------------------------------- the descriptor of a decorated operation
\* Every decorated operation of GistAPI is one authenticate object, shared by
\* all the instances of the class. A behaviour of SpecAuth is a sequence of
\* attribute accesses (instance.operation, which calls __get__) and of calls
\* of the callables the accesses returned, on two instances.
MaxHeld == 3
MaxCalls == 3

Instances == {"A", "B"}

\* instance.token
TokenOf(i) == IF i = "A" THEN "token-A" ELSE "token-B"

InitAuth ==
  /\ pc = "call"
  /\ configFiles = [p \in PlaceSet |-> NoFile]
  /\ configPath = NoneV
  /\ config = NoConfig
  /\ editor = NoneV
  /\ token = <<>>
  /\ argv = NoArgv
  /\ calls = <<>>
  /\ args = NoArgs
  /\ exc = "none"
  /\ exitCode = -1
  /\ stdoutEncoding = "utf-8"
  /\ process = NoProcess
  /\ InitOps
  /\ InitAlone

\* authenticate.__get__(instance, owner): the instance is stored on the
\* descriptor and the bound method self.__call__ is returned
Get ==
  /\ Len(held) < MaxHeld
  /\ \E i \in Instances :
       /\ instance' = i
       /\ held' = Append(held, i)
  /\ UNCHANGED << pc, stdoutEncoding, process, mainVars, listVars, opVars,
                  config, editor, token, args, exc, exitCode, sent, served,
                  stdout, built, txt, width, elided >>

\* authenticate.__call__ through one of the callables held: the request is
\* built with self.instance.token, AttributeError when self.instance is
\* None; self.instance is None afterwards
Call ==
  /\ Len(built) < MaxCalls
  /\ \E k \in 1..Len(held) :
       built' = Append(built,
                  IF instance = NoneV
                  THEN [on |-> held[k], token |-> NoneV, exc |-> "AttributeError"]
                  ELSE [on |-> held[k], token |-> TokenOf(instance), exc |-> "none"])
  /\ instance' = NoneV
  /\ UNCHANGED << pc, stdoutEncoding, process, mainVars, listVars, opVars,
                  config, editor, token, args, exc, exitCode, sent, served,
                  stdout, held, txt, width, elided >>

NextAuth == Get \/ Call

SpecAuth == InitAuth /\ [][NextAuth]_vars

\* ------------------------------------------------- GistAPI.list, running on
\* A behaviour of SpecList is one call of GistAPI.list by the list command,
\* from the entry of the handler on, against a server that answers every
\* request. The program is one thread that runs without waiting for anything
\* but the answer: a step that can be taken is taken (weak fairness).
InitList ==
  /\ pc = "list"
  /\ configFiles =
       [p \in PlaceSet |->
          IF p = "~/.gist" THEN File([n \in {"token"} |-> << "t" >>]) ELSE NoFile]
  /\ configPath = "~/.gist"
  /\ config = configFiles["~/.gist"].section
  /\ editor = "/usr/bin/editor"
  /\ token = get_personal_access_token(config, NoProcess).value
  /\ argv = Plain("list", <<>>)
  /\ calls = << "list" >>
  /\ args = ParseArgs(argv)
  /\ exc = "none"
  /\ exitCode = -1
  /\ stdoutEncoding = "utf-8"
  /\ process = NoProcess
  /\ InitOps
  /\ InitAlone

NextList == ListBegin \/ ListSend \/ ListExtract \/ ListLink

SpecList == InitList /\ [][NextList]_vars /\ WF_vars(NextList)

\* ------------------------------------------------------- elide, called alone
\* elide(txt) depends on its argument and on what terminal_width() returns:
\* the number of columns the terminal reports (an unsigned 16-bit field of
\* the TIOCGWINSZ answer, 0 included), or None when there is no terminal. A
\* behaviour of SpecElide is one call.
MaxTxtLen == 5
MaxWidth == 6

TxtChars == {"a", "."}

Ellipsis == << ".", ".", "." >>

elide(t, w) ==
  IF w # NoWidth /\ w > 3
  THEN IF Len(t) > w THEN SubSeq(t, 1, w - 3) \o Ellipsis ELSE t
  ELSE t

InitElide ==
  /\ pc = "call"
  /\ configFiles = [p \in PlaceSet |-> NoFile]
  /\ configPath = NoneV
  /\ config = NoConfig
  /\ editor = NoneV
  /\ token = <<>>
  /\ argv = NoArgv
  /\ calls = <<>>
  /\ args = NoArgs
  /\ exc = "none"
  /\ exitCode = -1
  /\ stdoutEncoding = "utf-8"
  /\ process = NoProcess
  /\ InitOps
  /\ instance = NoneV
  /\ held = <<>>
  /\ built = <<>>
  /\ txt \in SeqsUpTo(TxtChars, MaxTxtLen)
  /\ width \in {NoWidth} \cup 0..MaxWidth
  /\ elided = <<>>

CallElide ==
  /\ pc = "call"
  /\ elided' = elide(txt, width)
  /\ pc' = "elide_done"
  /\ UNCHANGED << stdoutEncoding, process, mainVars, listVars, opVars, config,
                  editor, token, args, exc, exitCode, sent, served, stdout,
                  instance, held, built, txt, width >>

SpecElide == InitElide /\ [][CallElide]_vars

\* ------------------------------------------------------------------ claims
\* what the claims speak of, stated without the code's loops

\* an element of a page that is an object holding id, public and description
HasAllKeys(e) == e.t = "dict" /\ ListKeys \subseteq DOMAIN e.d

\* the valid records of a page body, in the page's order
ValidRecords(body) ==
  IF body.t # "list" THEN <<>>
  ELSE LET v == SelectSeq(body.elems, HasAllKeys)
       IN [i \in 1..Len(v) |-> [id |-> v[i].d.id, public |-> v[i].d.public,
                                desc |-> v[i].d.description]]

\* the valid records of the first n answers, page after page
RECURSIVE ValidRecordsUpTo(_)
ValidRecordsUpTo(n) ==
  IF n = 0 THEN <<>> ELSE ValidRecordsUpTo(n - 1) \o ValidRecords(served[n].body)

\* the answer carries a link header with an entry whose rel is "next"
HasNext(r) == \E i \in 1..Len(r.link) : r.link[i].rel = "next"

\* list has returned to handle_gist_list
ListReturned == args.cmd = "list" /\ pc = "list_print"

\* the last page was decoded and all its elements were visited
LastPageRead ==
  /\ served # <<>>
  /\ response.body.t = "list"
  /\ \A i \in 1..Len(response.body.elems) : response.body.elems[i].t = "dict"

\* C1: list follows pagination: it never returns right after reading a page
\* whose response carries a link entry with rel "next" (it sends a further
\* request instead), so that the result holds the records of every page.
C1_ListFollowsNext ==
  (ListReturned /\ LastPageRead /\ Len(sent) < MaxRequests) => ~HasNext(response)

\* C2: list never raises to its caller, whatever the pages' responses are.
C2_ListNeverRaises == ~(args.cmd = "list" /\ pc = "except")

\* the operations that send one request through GistAPI.send
NetOps == { "create", "delete", "info", "files", "content", "archive", "fork",
            "description" }

\* the server answered the last request with a status outside 2xx
AnsweredNon2xx ==
  served # <<>> /\ response # NoResponse /\ ~Is2xx(response.status)

\* C3: every network operation raises to its caller whenever the server
\* answers with a non-2xx status: after such an answer an exception is in
\* flight, the operation has not returned normally.
C3_Non2xxRaises ==
  (args.cmd \in NetOps /\ AnsweredNon2xx) => (exc # "none")

\* some request of this invocation met a transport failure or a non-2xx answer
ApiError == \E i \in 1..Len(served) : ~Is2xx(served[i].status)

\* C4: main ends the process with exit code 1 whenever the subcommand met an
\* API error (a transport failure or a non-2xx response), list and delete
\* included.
C4_ApiErrorExitsOne ==
  (pc = "exited" /\ ApiError) => exitCode = 1

\* C5: when list returns, an element that is an object lacking id, public or
\* description is left out and every element holding all three is included,
\* in the page's order: the result is the valid records of the pages read.
C5_InvalidRecordsSkipped ==
  ListReturned => gists = ValidRecordsUpTo(Len(served))

\* C5 witness: list returned after a page that holds a record lacking a key
\* and, after it, a complete record.
C5_Witness ==
  /\ ListReturned
  /\ LastPageRead
  /\ \E i, j \in 1..Len(response.body.elems) :
       /\ i < j
       /\ ~HasAllKeys(response.body.elems[i])
       /\ HasAllKeys(response.body.elems[j])
  /\ Len(gists) = 1

EncryptWithoutGnupg ==
  /\ args.cmd = "create"
  /\ args.encrypt
  /\ (~has_option(config, "homedir") \/ ~has_option(config, "fingerprint"))

\* C7: create --encrypt fails with a GistError when gnupg-homedir or
\* gnupg-fingerprint is absent from the configuration, having read no file,
\* stdin or editor input and having sent no HTTP request.
C7_EncryptNeedsGnupgConfig ==
  (EncryptWithoutGnupg /\ pc # "create")
     => /\ pc \in {"except", "exited"}
        /\ exc = "GistError"
        /\ ioReads = 0
        /\ sent = <<>>

\* C7 witness: an encrypting create with gnupg-homedir set and
\* gnupg-fingerprint absent has ended with exit code 1.
C7_Witness ==
  /\ EncryptWithoutGnupg
  /\ has_option(config, "homedir")
  /\ pc = "exited"
  /\ exitCode = 1

\* every file of the create command was read and one has no content
CollectedAnEmptyFile ==
  /\ args.cmd = "create"
  /\ pc # "create_check"
  /\ exc # "FileNotFoundError"
  /\ \E i \in 1..Len(files) : files[i].content = <<>>

\* C8: create raises a GistError and sends no HTTP request whenever one of
\* the collected files has zero-length content, at whatever position.
C8_EmptyFileRejected ==
  CollectedAnEmptyFile => /\ pc \in {"except", "exited"}
                          /\ exc = "GistError"
                          /\ sent = <<>>

\* C8 witness: a create of two files, the first with content and the second
\* empty, has ended with exit code 1.
C8_Witness ==
  /\ CollectedAnEmptyFile
  /\ Len(files) = 2
  /\ files[1].content # <<>>
  /\ files[2].content = <<>>
  /\ pc = "exited"
  /\ exitCode = 1

\* C9: after GistAPI.edit returned or raised, whatever step failed, the clone
\* directory <tmpdir>/<id> no longer exists.
C9_CloneDirRemoved ==
  (args.cmd = "edit" /\ pc \in {"return", "except", "exited"}) => ~cloneDir

\* C10: the mapping GistAPI.content returns has exactly the file names of the
\* gist as keys, and a file whose content field is base64(t), t encoded as
\* UTF-8, is mapped to t, for every text t.
C10_ContentDecodesBase64 ==
  pc = "content_print" =>
    LET sentFiles == response.body.d.files
    IN /\ DOMAIN content = DOMAIN sentFiles
       /\ \A n \in DOMAIN sentFiles : \A t \in Texts :
            sentFiles[n].content = B64OfText(t) => content[n] = t

\* C10 witness: content returned both files of a gist, one of them holding
\* text outside ASCII.
C10_Witness ==
  /\ pc = "content_print"
  /\ DOMAIN content = GistFileNames
  /\ content["file-A.txt"] = <<65>>
  /\ content["file-B.txt"] = <<233, 8492>>

\* the handler main dispatched to has returned normally
HandlerReturned == pc = "return" \/ (pc = "exited" /\ exitCode = 0)

\* the content command was given a file name
ContentOfOneFile == args.cmd = "content" /\ args.filename # NoneV

\* C11: when the content command is given a filename, only the content of
\* that file is printed: every print is the text of the named file, and no
\* block of another file of the gist appears, whether or not the gist has a
\* file of that name.
C11_OnlyNamedFilePrinted ==
  ContentOfOneFile =>
    \A i \in 1..Len(stdout) :
      /\ stdout[i].kind = "text"
      /\ stdout[i].text = IF args.decrypt THEN Decrypt(content[args.filename])
                                          ELSE content[args.filename]

\* the content command was given neither a file name nor --decrypt and its
\* handler has returned
ContentOfAllFiles ==
  /\ args.cmd = "content"
  /\ args.filename = NoneV
  /\ ~args.decrypt
  /\ HandlerReturned

\* C12: the content command without a filename and without --decrypt
\* prints, for every file of the gist the server answered with and for no
\* other name, one block made of "<filename>:" and that file's decoded
\* content, in the server's order; there are as many blocks as files.
C12_EveryFileOneBlock ==
  ContentOfAllFiles =>
    LET gistFiles == served[Len(served)].body.d.files
    IN /\ Len(stdout) = Cardinality(DOMAIN gistFiles)
       /\ \A i \in 1..Len(stdout) :
            /\ stdout[i].kind = "block"
            /\ stdout[i].name \in DOMAIN gistFiles
            /\ ~stdout[i].decrypted
            /\ stdout[i].text = Convert(gistFiles[stdout[i].name].content).text
       /\ \A n \in DOMAIN gistFiles : \E i \in 1..Len(stdout) : stdout[i].name = n

\* C12 witness: both files of a gist were printed, the second one holding
\* text outside ASCII.
C12_Witness ==
  /\ ContentOfAllFiles
  /\ Len(stdout) = 2
  /\ stdout[1].name = "file-A.txt"
  /\ stdout[2].name = "file-B.txt"
  /\ stdout[2].text = <<8492>>

\* the list command has printed its lines and its handler has returned
ListPrinted == args.cmd = "list" /\ HandlerReturned

\* the elements of the pages the server answered with, page after page
RECURSIVE ServerRecordsUpTo(_)
ServerRecordsUpTo(n) ==
  IF n = 0 THEN <<>>
  ELSE ServerRecordsUpTo(n - 1)
         \o (IF served[n].body.t = "list" THEN served[n].body.elems ELSE <<>>)

\* the line "<id> <flag> <description>" of a record
LineOf(r) ==
  [id |-> r.id,
   flag |-> IF r.public THEN "+" ELSE "-",
   desc |-> IF r.desc = NoneV THEN "" ELSE r.desc]

\* C13 (as claimed): the list command prints exactly one line per record
\* the server returned, in the server's order, each made of the record's
\* id, '+' or '-' and its description.
C13_OneLinePerServerRecord ==
  ListPrinted =>
    LET recs == ServerRecordsUpTo(Len(served))
    IN /\ Len(stdout) = Len(recs)
       /\ \A i \in 1..Len(recs) :
            /\ HasAllKeys(recs[i])
            /\ stdout[i] = LineOf([id |-> recs[i].d.id, public |-> recs[i].d.public,
                                   desc |-> recs[i].d.description])

\* C13 (amended): the list command prints, in the server's order, exactly
\* one line for each record of the pages it read that holds id, public and
\* description and whose line sys.stdout can encode; the line is made of the
\* id, '+' if and only if the record is public and '-' otherwise, and the
\* description, a null description being printed as the empty string.
C13_OneLinePerPrintableRecord ==
  ListPrinted =>
    LET recs == ValidRecordsUpTo(Len(served))
        printable == SelectSeq(recs,
                       LAMBDA r : stdoutEncoding = "utf-8"
                                    \/ r.desc \notin NonAsciiDescs)
    IN stdout = [i \in 1..Len(printable) |-> LineOf(printable[i])]

\* C13 witness: two lines were printed, of a public record with a
\* description outside ASCII and of a private record with a null
\* description, in the order the server gave them.
C13_Witness ==
  /\ ListPrinted
  /\ stdout = << [id |-> 2, flag |-> "-", desc |-> ""],
                 [id |-> 1, flag |-> "+", desc |-> "test-desc-U+212C"] >>

\* the create command has sent its request
CreateSent == args.cmd = "create" /\ sent # <<>>

\* the name "<name>.asc" of each name a collected file may have
Asc ==
  [n \in {"f.txt", "g.txt", "foo.md", "file1.txt"} |->
     CASE n = "f.txt" -> "f.txt.asc"
       [] n = "g.txt" -> "g.txt.asc"
       [] n = "foo.md" -> "foo.md.asc"
       [] OTHER -> "file1.txt.asc"]

SendPcs == { "list_send", "delete", "info", "fork", "description", "files",
            "archive", "content", "create_send" }

\* the commands whose handler invokes one GistAPI operation once
SingleOps == { "create", "info", "files", "content", "archive", "fork",
              "description" }

\* the answer to a request is a failure: session.send or json() raised
FailedAnswer(r) == r = NoResponse \/ r.body = JInvalid

\* what C15 says of every state
C15_State ==
  /\ args.cmd \in SingleOps => Len(sent) <= 1
  /\ args.cmd = "delete" =>
       /\ Len(sent) <= Len(args.ids)
       /\ \A i \in 1..Len(sent) : sent[i].url.path = <<"gists", args.ids[i]>>
  /\ args.cmd = "list" =>
       /\ \A i, j \in 1..Len(sent) : sent[i].url = sent[j].url => i = j
       /\ \A i \in 1..(Len(served) - 1) : ~FailedAnswer(served[i])

\* what C15 says of every step: an invocation of an operation sends one
\* request, and a step taken after a failure sends none
C15_Step ==
  /\ pc \in SendPcs => Len(sent') = Len(sent) + 1
  /\ pc \notin SendPcs => sent' = sent
  /\ (pc \in SendPcs /\ pc # "delete" /\ args.cmd # "list") => pc' # pc

\* C15: no request is ever retried: one invocation of create, delete,
\* info, files, content, archive, fork or description sends exactly one
\* HTTP request whether it succeeds or fails (delete: one per id given),
\* and list sends at most one request per page and none after a failed page.
C15_NoRetry == [] C15_State /\ [][C15_Step]_vars

\* C15 witness: info met a transport failure, one request was sent and
\* the command has ended with exit code 1.
C15_Witness ==
  /\ args.cmd = "info"
  /\ pc = "exited"
  /\ exitCode = 1
  /\ Len(sent) = 1
  /\ served = << NoResponse >>

\* C16: each operation maps to one HTTP method and one path under the base
\* URL: create is POST on the base URL; delete is DELETE on /<id>; info,
\* files, content and archive are GET on /<id>; fork is POST on
\* /<id>/forks; description is PATCH on /<id> with the body {description};
\* clone and edit send no request.
C16_MethodAndPath ==
  /\ args.cmd \in {"clone", "edit"} => sent = <<>>
  /\ \A i \in 1..Len(sent) :
       LET r == sent[i]
           c == args.cmd
       IN /\ c = "create" => r.method = "POST" /\ r.url.path = <<"gists">>
          /\ c = "delete" =>
               r.method = "DELETE" /\ r.url.path = <<"gists", args.ids[i]>>
          /\ c \in {"info", "files", "content", "archive"} =>
               r.method = "GET" /\ r.url.path = <<"gists", args.id>>
          /\ c = "fork" =>
               r.method = "POST" /\ r.url.path = <<"gists", args.id, "forks">>
          /\ c = "description" =>
               /\ r.method = "PATCH"
               /\ r.url.path = <<"gists", args.id>>
               /\ r.data = [description |-> args.desc]

\* C16 witness: the second of two deletes was sent.
C16_Witness ==
  /\ args.cmd = "delete"
  /\ Len(sent) = 2
  /\ sent[2].url.path = <<"gists", "id2">>
  /\ sent[2].method = "DELETE"

\* what C17 says of every state: each request sent carries the token and
\* the three standard headers
C17_State ==
  \A i \in 1..Len(sent) :
    /\ "access_token" \in DOMAIN sent[i].params
    /\ sent[i].params.access_token = token
    /\ sent[i].headers =
         [ AcceptEncoding |-> "identity, deflate, compress, gzip",
           UserAgent |-> "python-requests/1.2.0",
           Accept |-> "application/vnd.github.v3.base64" ]

\* what C17 says of every step: only a call of send adds to the requests
\* sent, and it adds one; building the request of list adds none
C17_Step ==
  /\ sent' # sent => /\ pc \in SendPcs
                     /\ Len(sent') = Len(sent) + 1
                     /\ SubSeq(sent', 1, Len(sent)) = sent
  /\ pc = "list" => sent' = sent /\ request' # NoRequest

\* C17: every HTTP request sent by any GistAPI operation, list included,
\* carries the client's token as the access_token parameter and the same
\* three standard headers, and building the request sends nothing: the
\* requests sent change only inside send.
C17_TokenAndHeaders == [] C17_State /\ [][C17_Step]_vars

\* C17 witness: list has built its request and sent it with the token.
C17_Witness ==
  /\ args.cmd = "list"
  /\ Len(sent) = 1
  /\ sent[1].params.access_token = token
  /\ "per_page" \in DOMAIN sent[1].params

\* a text made of blanks only (the empty text is one)
AllBlank(s) == \A k \in 1..Len(s) : s[k] = " "

\* the first character of a text that is no blank
FirstNonBlank(s) ==
  s[CHOOSE k \in 1..Len(s) : s[k] # " " /\ \A m \in 1..(k - 1) : s[m] = " "]

\* t is s with the blanks at both its ends removed
IsStripOf(t, s) ==
  /\ t # <<>> => t[1] # " " /\ t[Len(t)] # " "
  /\ \E i, j \in 0..Len(s) :
       /\ i + Len(t) + j = Len(s)
       /\ SubSeq(s, i + 1, i + Len(t)) = t
       /\ \A k \in (1..i) \cup ((Len(s) - j + 1)..Len(s)) : s[k] = " "

\* get_personal_access_token was called and is over
TokenCallDone == pc = "token_done"

\* C18 (as claimed): get_personal_access_token raises GistMissingTokenError
\* when there is no token option, GistEmptyTokenError when the token is
\* empty or blank, and otherwise returns without error the token with the
\* blanks around it removed.
C18_TokenStripped ==
  TokenCallDone =>
    IF ~has_option(config, "token") THEN exc = "GistMissingTokenError"
    ELSE IF AllBlank(config.token) THEN exc = "GistEmptyTokenError"
    ELSE exc = "none" /\ IsStripOf(token, config.token)

\* C18 (amended): as claimed for a missing and for a blank token; a token
\* whose first non-blank character is not '!' is returned without error
\* with the blanks around it removed; a token that begins with '!' is run
\* as a command and what is returned, if anything, is the stripped output
\* of the command, neither of the two token errors being raised.
C18_LiteralTokenStripped ==
  TokenCallDone =>
    IF ~has_option(config, "token") THEN exc = "GistMissingTokenError"
    ELSE IF AllBlank(config.token) THEN exc = "GistEmptyTokenError"
    ELSE IF FirstNonBlank(config.token) # "!"
    THEN exc = "none" /\ IsStripOf(token, config.token)
    ELSE /\ exc \notin {"GistMissingTokenError", "GistEmptyTokenError"}
         /\ exc = "none" => IsStripOf(token, process.out)

\* C18 witness: a literal token with a blank on each side was returned
\* without them.
C18_Witness ==
  /\ TokenCallDone
  /\ has_option(config, "token")
  /\ config.token = <<" ", "t", " ">>
  /\ exc = "none"
  /\ token = <<"t">>

\* C19: get_value_from_command runs a value whose first non-blank
\* character is '!' as a command and returns the stripped output of the
\* command, raises GistError when the command exits non-zero, and returns
\* every other value as it was passed in.
C19_ValueFromCommand ==
  pc = "value_done" =>
    IF ~AllBlank(config.token) /\ FirstNonBlank(config.token) = "!"
    THEN process.error = "none" =>
           /\ process.returncode # 0 => exc = "GistError"
           /\ process.returncode = 0 =>
                exc = "none" /\ IsStripOf(token, process.out)
    ELSE exc = "none" /\ token = config.token

\* the subcommands C21 speaks of and the number of positional words each
\* takes
C21_Cmds ==
  {"edit", "fork", "info", "files", "archive", "description", "clone",
   "content", "list", "version"}

C21_WithinArity(line) ==
  LET n == Len(line.pos)
  IN CASE line.cmd \in {"edit", "fork", "info", "files", "archive"} -> n = 1
       [] line.cmd = "description" -> n = 2
       [] line.cmd \in {"clone", "content"} -> n \in 1..2
       [] line.cmd \in {"list", "version"} -> n = 0
       [] OTHER -> FALSE

\* C21: main checks the number of positional arguments of a subcommand
\* before it runs a handler: a command line within the arity of its
\* subcommand runs the matching handler once, and one with too few or too
\* many positional arguments runs no handler and ends with exit code 1.
C21_ArityChecked ==
  (argv # NoArgv /\ argv.cmd \in C21_Cmds) =>
    IF C21_WithinArity(argv)
    THEN calls = << argv.cmd >>
    ELSE /\ calls = <<>>
         /\ pc \in {"except", "exited"}
         /\ pc = "exited" => exitCode = 1

\* C20: --filename is incompatible with a list of existing files: a create
\* command given both --filename and at least one FILES argument, in any
\* argument order, is rejected, so that the create handler is never run
\* with both.
C20_FilenameExcludesFiles ==
  ~(args.cmd = "create" /\ args.filename # NoneV /\ args.files # <<>>)

\* what C22 speaks of: whether a file is at a place, and the rank of the
\* place in the order home directory, XDG configuration, GIST_CONFIG
C22_Exists(p) == configFiles[p].state # "absent"

C22_Rank(p) ==
  CASE p = "~/.gist" -> 1
    [] p \in {"~/.config/gist", "$XDG_DATA_HOME/gist"} -> 2
    [] p = "$GIST_CONFIG" -> 3

C22_Read(p) ==
  /\ configPath = p
  /\ configFiles[p].state = "file" => exc = "none" /\ config = configFiles[p].section
  /\ configFiles[p].state = "unreadable" => exc = "UserError"

\* C22 (as stated): load_config_file chooses the file by precedence in the
\* order home directory, XDG configuration, GIST_CONFIG: of the places that
\* hold a file the one earlier in that order is read, and with no file
\* anywhere UserError is raised.
C22_EarlierWins ==
  pc = "config_done" =>
    IF \A p \in PlaceSet : ~C22_Exists(p)
    THEN exc = "UserError"
    ELSE \E p \in PlaceSet :
           /\ C22_Exists(p)
           /\ \A q \in PlaceSet : C22_Exists(q) => C22_Rank(p) <= C22_Rank(q)
           /\ C22_Read(p)

\* C22 (amended): of the places ~/.gist, ~/.config/gist, $XDG_DATA_HOME/gist
\* and $GIST_CONFIG that hold a file, the one latest in that order is the one
\* read; UserError is raised when none holds a file, and when the file
\* chosen cannot be read.
C22_LaterWins ==
  pc = "config_done" =>
    IF \A p \in PlaceSet : ~C22_Exists(p)
    THEN exc = "UserError" /\ configPath = NoneV
    ELSE \E i \in 1..Len(ConfigPlaces) :
           /\ C22_Exists(ConfigPlaces[i])
           /\ \A j \in (i + 1)..Len(ConfigPlaces) : ~C22_Exists(ConfigPlaces[j])
           /\ C22_Read(ConfigPlaces[i])

C22_Witness ==
  /\ pc = "config_done"
  /\ configFiles["~/.gist"].state = "file"
  /\ configFiles["$GIST_CONFIG"].state = "file"
  /\ configFiles["~/.gist"].section # configFiles["$GIST_CONFIG"].section
  /\ configPath = "$GIST_CONFIG"
  /\ config = configFiles["$GIST_CONFIG"].section
  /\ exc = "none"

\* C23: a callable obtained by accessing a decorated operation on an
\* instance builds its request with the token of that instance whenever it
\* is called, whatever was accessed or called in between.
C23_TokenOfTheInstanceAccessed ==
  \A k \in 1..Len(built) :
    built[k].exc = "none" /\ built[k].token = TokenOf(built[k].on)

\* C24: after GistAPI.edit returned or raised, the working directory of the
\* process is the one it was before the call.
C24_WorkingDirectoryRestored ==
  (args.cmd = "edit" /\ pc \in {"return", "except", "exited"}) => cwd = "orig"

\* C25: GistAPI.list terminates whatever the server answers: it returns to
\* the handler or leaves by an exception, also when every page carries a
\* "next" link and when the "next" link points back at the page just fetched.
C25_ListTerminates == <>(pc \in {"list_print", "except"})

C25_Witness ==
  /\ pc = "list_print"
  /\ Len(served) = 1
  /\ served[1].body.t = "list"
  /\ HasNext(served[1])
  /\ served[1].link[1].url = BaseUrl

\* the create read its files from the FILES paths of the command line
CreateFromPaths ==
  /\ CreateSent
  /\ args.files # <<>>
  /\ Len(files) = Len(args.files)
  /\ \A i \in 1..Len(files) : files[i].name = Basename(args.files[i])

\* C26: the files map of the body of a create from FILES paths has one entry
\* per path of the command line, also when two paths have one base name,
\* with --encrypt and without.
C26_OneEntryPerPath ==
  CreateFromPaths => Cardinality(DOMAIN sent[1].data.files) = Len(args.files)

\* the k-th request is the DELETE of the k-th id of the command line
C27_DeleteOf(k) ==
  sent[k].method = "DELETE" /\ sent[k].url.path = << "gists", args.ids[k] >>

\* what C27 says of every state of a delete command
C27_State ==
  args.cmd = "delete" =>
    /\ Len(sent) <= Len(args.ids)
    /\ Len(served) = Len(sent)
    /\ \A k \in 1..Len(sent) : C27_DeleteOf(k)
    /\ \A k \in 1..(Len(sent) - 1) : served[k] # NoResponse
    /\ pc = "return" => Len(sent) = Len(args.ids)
    /\ (sent # <<>> /\ served[Len(sent)] = NoResponse) =>
         exc = "ConnectionError" /\ pc \in {"except", "exited"}

\* what C27 says of every step: a request, once sent, stays sent
C27_Step ==
  /\ Len(sent') >= Len(sent)
  /\ \A k \in 1..Len(sent) : sent'[k] = sent[k] /\ served'[k] = served[k]

\* C27: the delete command sends one DELETE request per id, in the order
\* the ids were given; when sending the request for an id raises, no request
\* is sent for a later id, and the requests sent before stay sent.
C27_DeleteInOrder == [] C27_State /\ [][C27_Step]_vars

\* C27 witness: of two ids the first was deleted and the request for the
\* second failed; the command has ended with exit code 1.
C27_Witness ==
  /\ args.cmd = "delete"
  /\ args.ids = << "id1", "id2" >>
  /\ Len(sent) = 2
  /\ served[1] # NoResponse
  /\ served[2] = NoResponse
  /\ pc = "exited"
  /\ exitCode = 1

\* the three things main does before it looks at the command line
C28_ConfigLoaded ==
  /\ configPath # NoneV
  /\ configFiles[configPath].state = "file"
  /\ config = configFiles[configPath].section

C28_EditorResolved == editor # NoneV

\* get_personal_access_token has returned: the configuration holds a token
\* that is not blank
C28_TokenObtained ==
  /\ has_option(config, "token")
  /\ ~AllBlank(config.token)
  /\ pc # "token"

\* C28: main parses no argument and runs no handler, help and version
\* included, unless the configuration was loaded, an editor was resolved and
\* a token was obtained before; when one of the three fails the process
\* exits with code 1 and no handler has run.
C28_SetupBeforeHandlers ==
  /\ (argv # NoArgv \/ args # NoArgs \/ calls # <<>>) =>
       C28_ConfigLoaded /\ C28_EditorResolved /\ C28_TokenObtained
  /\ (pc = "exited" /\ ~(C28_ConfigLoaded /\ C28_EditorResolved /\ C28_TokenObtained)) =>
       exitCode = 1 /\ calls = <<>> /\ argv = NoArgv

\* C28 witness: the configuration was loaded and an editor resolved, the
\* token was blank; the process has ended with code 1, nothing parsed.
C28_Witness ==
  /\ pc = "exited"
  /\ C28_ConfigLoaded
  /\ C28_EditorResolved
  /\ ~C28_TokenObtained
  /\ exitCode = 1
  /\ argv = NoArgv
  /\ calls = <<>>

\* C29: the token get_personal_access_token returns, which main hands to
\* GistAPI as it is, is never empty and never made of blanks only, for a
\* literal token and for the token a '!' command prints.
C29_TokenNeverBlank ==
  (pc = "token_done" /\ exc = "none") => (token # <<>> /\ ~AllBlank(token))

\* C30: elide returns a text no longer than the width the terminal
\* reports, for every text and every width, the widths 0 to 3 included; a
\* text that fits, and any text when there is no width, is returned as it is.
C30_ElidedFits ==
  pc = "elide_done" =>
    /\ width # NoWidth => Len(elided) <= width
    /\ (width = NoWidth \/ Len(txt) <= width) => elided = txt

====
